---- MODULE Spec2Model ----
(***************************************************************************)
(* wire-img: the delivery side (routes, process, template resolution) and  *)
(* the pieces of the transcoder and of the file system it stands on.       *)
(*                                                                         *)
(* A name is a sequence of one-character strings; a path (PathBuf) is a    *)
(* sequence of components, each component a sequence of characters.  An    *)
(* image (a byte vector) is abstracted to what the image crate can tell    *)
(* about it: the format its magic number announces, whether it decodes,    *)
(* and its pixel dimensions.                                               *)
(***************************************************************************)
EXTENDS Integers, Sequences, FiniteSets, TLC

VARIABLES config, disk, phase, request, response, trace,
          storage, listing, clock, added

\* the bucketed DiskStorage under test: the value DiskStorage::new returned,
\* the directory listing it read, the unique ids generated so far and what
\* each add_new_file call chose and returned
storeVars == <<storage, listing, clock, added>>

VARIABLES delete_original, pending, callback, chan, watcher, hist

\* the Ingestion Watcher: the DELETE_ORIGINAL_FILE environment variable, the
\* notifications the OS raised and the callback was not yet called with, the
\* notification a callback blocked in blocking_send holds, the channel, the
\* watch task, and the history of what arrived, was handled and was ingested
watchVars == <<delete_original, pending, callback, chan, watcher, hist>>

VARIABLES transcoded

\* the Transcoder called on its own: the call and what it returned
codecVars == <<transcoded>>

vars ==
    <<config, disk, phase, request, response, trace, storeVars, watchVars,
      codecVars>>

(***************************************************************************)
(* Bounds of the model.                                                    *)
(***************************************************************************)
\* longest requested name, in characters
MaxNameLen == 3
\* largest width / height a request or a template asks for
MaxDim == 2
\* longest template list explored by the resolver specification
MaxTemplates == 2

\* the characters requested names are made of
Chars == {"l", "p", "_"}

Names == UNION {[1..n -> Chars] : n \in 1..MaxNameLen}

Dims == 1..MaxDim

\* the extension strings a request may carry
Extensions == {"avif", "jpg", "jpeg", "png", "PNG", "gif"}

(***************************************************************************)
(* Option / Result values.                                                 *)
(***************************************************************************)
None == [tag |-> "None"]

Some(x) == [tag |-> "Some", val |-> x]

Ok(x) == [tag |-> "Ok", val |-> x]

Err(e) == [tag |-> "Err", err |-> e]

Panic == [tag |-> "Panic"]

\* slice::first and slice::last
first(v) == IF Len(v) = 0 THEN None ELSE Some(v[1])

last(v) == IF Len(v) = 0 THEN None ELSE Some(v[Len(v)])

(***************************************************************************)
(* configuration crate                                                     *)
(***************************************************************************)
ImageEncoding == {"AVIF", "JPEG", "PNG"}

content_type(e) ==
    CASE e = "AVIF" -> "image/avif"
      [] e = "JPEG" -> "image/jpeg"
      [] e = "PNG" -> "image/png"

extension(e) ==
    CASE e = "AVIF" -> ".avif"
      [] e = "JPEG" -> ".jpg"
      [] e = "PNG" -> ".png"

TemplateType == {"Prefix", "Suffix"}

TemplateSettings(location, name, size, format) ==
    [location |-> location, name |-> name, size |-> size, format |-> format]

ImageSettings(formats, storage_format, input_path, output_path) ==
    [formats |-> formats, storage_format |-> storage_format,
     input_path |-> input_path, output_path |-> output_path]

Settings(image, templates) == [image |-> image, templates |-> templates]

\* impl Default for ImageSettings
DefaultImageSettings ==
    ImageSettings({"AVIF", "JPEG", "PNG"}, "AVIF", <<<<"in">>>>, <<<<"out">>>>)

(***************************************************************************)
(* str and PathBuf operations used by the request processor                *)
(***************************************************************************)
\* the positions of character c in s
Positions(s, c) == {i \in 1..Len(s) : s[i] = c}

Min(S) == CHOOSE x \in S : \A y \in S : x <= y

Max(S) == CHOOSE x \in S : \A y \in S : y <= x

\* str::split("_"): the pieces between the delimiters, empty pieces included;
\* a string without the delimiter is one piece
RECURSIVE split(_, _)
split(s, c) ==
    IF Positions(s, c) = {}
    THEN <<s>>
    ELSE LET i == Min(Positions(s, c))
         IN <<SubSeq(s, 1, i - 1)>> \o split(SubSeq(s, i + 1, Len(s)), c)

\* str::strip_prefix
strip_prefix(s, pattern) ==
    IF Len(pattern) <= Len(s) /\ SubSeq(s, 1, Len(pattern)) = pattern
    THEN Some(SubSeq(s, Len(pattern) + 1, Len(s)))
    ELSE None

\* str::strip_suffix
strip_suffix(s, pattern) ==
    IF Len(pattern) <= Len(s)
       /\ SubSeq(s, Len(s) - Len(pattern) + 1, Len(s)) = pattern
    THEN Some(SubSeq(s, 1, Len(s) - Len(pattern)))
    ELSE None

\* Path::file_stem of a component: the part before the last "." that is not
\* the first character; the whole component when there is none
file_stem(comp) ==
    LET dots == {i \in Positions(comp, ".") : i > 1}
    IN IF dots = {} THEN comp ELSE SubSeq(comp, 1, Max(dots) - 1)

\* the components of a pushed string that holds separators
components(comp) == SelectSeq(split(comp, "/"), LAMBDA token : token # <<>>)

\* PathBuf::push: a string without separator is one more component; a string
\* that starts with the separator is absolute and replaces the path
push(path, comp) ==
    IF Positions(comp, "/") = {}
    THEN Append(path, comp)
    ELSE IF Head(comp) = "/"
    THEN components(comp)
    ELSE path \o components(comp)

\* PathBuf::set_extension: the last component keeps its stem and gets ext
set_extension(path, ext) ==
    IF Len(path) = 0
    THEN path
    ELSE [path EXCEPT ![Len(path)] = file_stem(path[Len(path)]) \o <<".", ext>>]

(***************************************************************************)
(* Template Resolver (api/src/main.rs)                                     *)
(***************************************************************************)
\* scan_templates keeping the last match instead of returning the first
RECURSIVE scan_templates_last_match(_, _, _, _)
scan_templates_last_match(maybe_prefix, maybe_suffix, config_templates, i) ==
    IF i > Len(config_templates)
    THEN Err("No templates matched")
    ELSE LET template == config_templates[i]
             is_suffix_template ==
                 /\ maybe_suffix.tag = "Some"
                 /\ template.location = "Suffix"
                 /\ template.name = maybe_suffix.val
             is_prefix_template ==
                 /\ maybe_prefix.tag = "Some"
                 /\ template.location = "Prefix"
                 /\ template.name = maybe_prefix.val
             later == scan_templates_last_match(maybe_prefix, maybe_suffix,
                                                config_templates, i + 1)
         IN IF later.tag = "Ok"
            THEN later
            ELSE IF is_prefix_template \/ is_suffix_template
                 THEN Ok(i)
                 ELSE later

\* the for loop of check_templates, from index i on
RECURSIVE scan_templates(_, _, _, _)
scan_templates(maybe_prefix, maybe_suffix, config_templates, i) ==
    IF i > Len(config_templates)
    THEN Err("No templates matched")
    ELSE LET template == config_templates[i]
             is_suffix_template ==
                 /\ maybe_suffix.tag = "Some"
                 /\ template.location = "Suffix"
                 /\ template.name = maybe_suffix.val
             is_prefix_template ==
                 /\ maybe_prefix.tag = "Some"
                 /\ template.location = "Prefix"
                 /\ template.name = maybe_prefix.val
         IN IF is_prefix_template \/ is_suffix_template
            THEN Ok(i)
            ELSE scan_templates(maybe_prefix, maybe_suffix, config_templates, i + 1)

\* Ok(i): the reference to the i-th configured template
check_templates(image_name, config_templates) ==
    LET split_name == split(image_name, "_")
        maybe_prefix == first(split_name)
        maybe_suffix == last(split_name)
    IN IF maybe_prefix.tag = "None" /\ maybe_suffix.tag = "None"
       THEN Err("File has no prefix and suffix patterns.")
       ELSE scan_templates(maybe_prefix, maybe_suffix, config_templates, 1)

\* Option::unwrap
unwrap(o) == IF o.tag = "Some" THEN Ok(o.val) ELSE Panic

remove_template_pattern(image, template) ==
    IF template.location = "Prefix"
    THEN unwrap(strip_prefix(image, template.name \o <<"_">>))
    ELSE unwrap(strip_suffix(image, <<"_">> \o template.name))

(***************************************************************************)
(* Transcoder (image/src/transcoder.rs)                                    *)
(***************************************************************************)
\* the image crate formats the program names
ImageFormat == {"Avif", "Jpeg", "Png"}

\* a byte vector, as far as the image crate can tell
Image(magic, valid, w, h) == [magic |-> magic, valid |-> valid, w |-> w, h |-> h]

\* bytes that are no image at all
Garbage == Image("none", FALSE, 0, 0)

PixelSize(width, height) == [width |-> width, height |-> height]

Position(x, y) == [x |-> x, y |-> y]

Resize(s) == [op |-> "Resize", size |-> s]

Crop(p, s) == [op |-> "Crop", pos |-> p, size |-> s]

\* image::guess_format: the format the magic number announces
guess_format(image) ==
    IF image.magic \in ImageFormat THEN Ok(image.magic) ELSE Err("Unsupported")

\* the fallback on the extension hint
hint_format(ext) ==
    CASE ext = "png" -> Ok("Png")
      [] ext = "jpg" -> Ok("Jpeg")
      [] ext = "jpeg" -> Ok("Jpeg")
      [] ext = "avif" -> Ok("Avif")
      [] OTHER -> Err("UnsupportedFormat")

\* image::load_from_memory_with_format: the pixel buffer, by its dimensions
load_from_memory_with_format(image, format) ==
    IF image.valid /\ image.magic = format
    THEN Ok([w |-> image.w, h |-> image.h])
    ELSE Err("DecodeFailure")

\* a resize that fits the image into the box and keeps its aspect ratio
apply_operation_keep_ratio(img, op) ==
    IF op.op = "Resize"
    THEN IF img.w * op.size.height <= img.h * op.size.width
         THEN [w |-> Max({1, (img.w * op.size.height) \div img.h}),
               h |-> op.size.height]
         ELSE [w |-> op.size.width,
               h |-> Max({1, (img.h * op.size.width) \div img.w})]
    ELSE img

\* one step of the operation loop: resize_exact / crop_imm
apply_operation(img, op) ==
    IF op.op = "Resize"
    THEN [w |-> op.size.width, h |-> op.size.height]
    ELSE LET x == IF op.pos.x < img.w THEN op.pos.x ELSE img.w
             y == IF op.pos.y < img.h THEN op.pos.y ELSE img.h
         IN [w |-> IF op.size.width < img.w - x THEN op.size.width ELSE img.w - x,
             h |-> IF op.size.height < img.h - y THEN op.size.height ELSE img.h - y]

RECURSIVE apply_operations(_, _)
apply_operations(img, operations) ==
    IF operations = <<>>
    THEN img
    ELSE apply_operations(apply_operation(img, Head(operations)), Tail(operations))

\* DynamicImage::write_to
write_to(img, target) == Ok(Image(target, TRUE, img.w, img.h))

\* the extension hint consulted before the content
resolve_format_hint_first(image, ext) ==
    IF hint_format(ext).tag = "Ok" THEN hint_format(ext) ELSE guess_format(image)

\* the source format: the detected one, else the one the extension names
resolve_format(image, ext) ==
    LET format_result == guess_format(image)
    IN IF format_result.tag = "Ok" THEN format_result ELSE hint_format(ext)

transcode(image, ext, target, ops) ==
    LET format == resolve_format(image, ext)
    IN IF format.tag = "Err"
       THEN format
       ELSE LET loaded == load_from_memory_with_format(image, format.val)
            IN IF loaded.tag = "Err"
               THEN loaded
               ELSE write_to(apply_operations(loaded.val,
                                 IF ops.tag = "Some" THEN ops.val ELSE <<>>),
                             target)

(***************************************************************************)
(* File system: a function from the paths that exist to what is there.     *)
(* An entry is a regular file holding an image, a directory (open works,   *)
(* reading fails) or a file the process may not open.                      *)
(***************************************************************************)
FileEntry(image) == [kind |-> "file", image |-> image]

DirEntry == [kind |-> "dir", image |-> Garbage]

DeniedEntry == [kind |-> "denied", image |-> Garbage]

\* OpenOptions::new().read(true).open(path)
open(dsk, path) ==
    IF path \notin DOMAIN dsk
    THEN Err("NotFound")
    ELSE IF dsk[path].kind = "denied" THEN Err("PermissionDenied") ELSE Ok(path)

\* read_to_end on an open handle
read_to_end(dsk, path) ==
    IF dsk[path].kind = "file" THEN Ok(dsk[path].image) ELSE Err("IsADirectory")

(***************************************************************************)
(* Request Processor (api/src/main.rs)                                     *)
(***************************************************************************)
\* what one request did: the resolver's answer, the stem it led to, the
\* path opened and how opening and reading went, the bytes read, and the
\* Transcoder calls made
NoTrace ==
    [template |-> None, stem |-> None, path |-> None, open |-> "none",
     read |-> "none", bytes |-> None, calls |-> <<>>]

\* the match from ImageEncoding to the image crate's format
image_format(e) ==
    CASE e = "AVIF" -> "Avif"
      [] e = "JPEG" -> "Jpeg"
      [] e = "PNG" -> "Png"

\* transcode_request with the caller's format in the template branch too
transcode_request_caller_format(template_result, target_format, templates) ==
    IF template_result.tag = "Ok"
    THEN LET template == templates[template_result.val]
         IN Some([ext |-> extension(template.format),
                  target |-> image_format(target_format),
                  ops |-> Some(<<Resize(PixelSize(template.size[1],
                                                  template.size[2]))>>)])
    ELSE CASE target_format = "AVIF" -> None
           [] target_format = "JPEG" ->
                Some([ext |-> "avif", target |-> "Jpeg", ops |-> None])
           [] target_format = "PNG" ->
                Some([ext |-> "avif", target |-> "Png", ops |-> None])

\* the Transcoder call process makes on the bytes it read (extension hint,
\* target, operations); None where it returns the bytes as they are
transcode_request(template_result, target_format, templates) ==
    IF template_result.tag = "Ok"
    THEN LET template == templates[template_result.val]
         IN Some([ext |-> extension(template.format),
                  target |-> image_format(template.format),
                  ops |-> Some(<<Resize(PixelSize(template.size[1],
                                                  template.size[2]))>>)])
    ELSE CASE target_format = "AVIF" -> None
           [] target_format = "JPEG" ->
                Some([ext |-> "avif", target |-> "Jpeg", ops |-> None])
           [] target_format = "PNG" ->
                Some([ext |-> "avif", target |-> "Png", ops |-> None])

\* the path process opens for a stem
canonical_path(input_path, name, image_name) ==
    set_extension(push(set_extension(push(input_path, name), "avif"),
                       image_name), "avif")

process(name, target_format, new_size, cfg, dsk) ==
    LET \* built from new_size and not read again
        op == IF new_size.tag = "Some" THEN <<Resize(new_size.val)>> ELSE <<>>
        template_result == check_templates(name, cfg.templates)
        image_name ==
            IF template_result.tag = "Ok"
            THEN remove_template_pattern(name, cfg.templates[template_result.val])
            ELSE Ok(name)
        t1 == [NoTrace EXCEPT !.template = Some(template_result),
                              !.stem = image_name]
    IN IF image_name.tag = "Panic"
       THEN [result |-> Panic, trace |-> t1]
       ELSE
         LET full_path == canonical_path(cfg.image.input_path, name, image_name.val)
             handle == open(dsk, full_path)
             t2 == [t1 EXCEPT !.path = Some(full_path)]
         IN IF handle.tag = "Err"
            THEN IF handle.err = "NotFound"
                 THEN [result |-> Err("Not found"),
                       trace |-> [t2 EXCEPT !.open = "NotFound"]]
                 ELSE [result |-> Err("Failed opening image file"),
                       trace |-> [t2 EXCEPT !.open = "Err"]]
            ELSE
              LET read_result == read_to_end(dsk, full_path)
                  t3 == [t2 EXCEPT !.open = "Ok"]
              IN IF read_result.tag = "Err"
                 THEN [result |-> Err("Failed reading image file"),
                       trace |-> [t3 EXCEPT !.read = "Err"]]
                 ELSE
                   LET bytes == read_result.val
                       call == transcode_request(template_result, target_format,
                                                 cfg.templates)
                       t4 == [t3 EXCEPT !.read = "Ok", !.bytes = Some(bytes)]
                   IN IF call.tag = "None"
                      THEN [result |-> Ok(bytes), trace |-> t4]
                      ELSE [result |-> transcode(bytes, call.val.ext,
                                                 call.val.target, call.val.ops),
                            trace |-> [t4 EXCEPT !.calls = <<call.val>>]]

\* the match on the extension string in serve_image and serve_resized
parse_extension(ext) ==
    CASE ext = "png" -> Some("PNG")
      [] ext = "jpg" -> Some("JPEG")
      [] ext = "jpeg" -> Some("JPEG")
      [] ext = "avif" -> Some("AVIF")
      [] OTHER -> None

\* a response: status 0 stands for no response at all (the handler panicked)
Response(status, ctype, body) ==
    [status |-> status, content_type |-> ctype, body |-> body]

\* Err(StatusCode::X.into())
StatusOnly(status) == Response(status, "", None)

\* the match on process's result that ends serve_image and serve_resized
into_response(headers, processed) ==
    CASE processed.result.tag = "Ok" ->
           Response(200, headers, Some(processed.result.val))
      [] processed.result.tag = "Err" -> StatusOnly(500)
      [] OTHER -> StatusOnly(0)

serve_image(image, ext, cfg, dsk) ==
    LET ext_parsed == parse_extension(ext)
    IN IF ext_parsed.tag = "None"
       THEN [response |-> StatusOnly(400), trace |-> NoTrace]
       ELSE IF ext_parsed.val \notin cfg.image.formats
            THEN [response |-> StatusOnly(400), trace |-> NoTrace]
            ELSE LET headers == content_type(ext_parsed.val)
                     processed == process(image, ext_parsed.val, None, cfg, dsk)
                 IN [response |-> into_response(headers, processed),
                     trace |-> processed.trace]

default_serve_image(image, cfg, dsk) == serve_image(image, "avif", cfg, dsk)

serve_resized(width, height, image, ext, cfg, dsk) ==
    LET resize_params == PixelSize(width, height)
        ext_parsed == parse_extension(ext)
    IN IF ext_parsed.tag = "None"
       THEN [response |-> StatusOnly(400), trace |-> NoTrace]
       ELSE LET headers == content_type(ext_parsed.val)
                processed == process(image, ext_parsed.val, Some(resize_params),
                                     cfg, dsk)
            IN [response |-> into_response(headers, processed),
                trace |-> processed.trace]

(***************************************************************************)
(* Storage Layer, bucketed (storage/src/disk.rs)                           *)
(*                                                                         *)
(* A Uuid is a positive number, ordered as Uuid is.  Its text is one       *)
(* character; the braced form is a second text Uuid::from_str accepts for  *)
(* the same id.  A component holding NonUtf8 is no valid Unicode.          *)
(***************************************************************************)
\* the ids the explored directories and calls can name
MaxUuid == 9

NonUtf8 == "\\xFF"

\* Uuid::to_string
uuid_to_string(u) == <<ToString(u)>>

\* OsStr::to_str
to_str(name) == IF Positions(name, NonUtf8) = {} THEN Some(name) ELSE None

\* Uuid::from_str: the hyphenated text and the braced text of an id
uuid_from_str(name) ==
    IF \E u \in 1..MaxUuid : name = uuid_to_string(u)
    THEN Ok(CHOOSE u \in 1..MaxUuid : name = uuid_to_string(u))
    ELSE IF \E u \in 1..MaxUuid : name = <<"{">> \o uuid_to_string(u) \o <<"}">>
    THEN Ok(CHOOSE u \in 1..MaxUuid :
                name = <<"{">> \o uuid_to_string(u) \o <<"}">>)
    ELSE Err("InvalidUuid")

\* Uuid::now_v7 after n ids were generated: time-ordered, so the next one
now_v7(n) == n + 1

\* fs::read_dir: the paths directly under a directory
read_dir(dsk, path) ==
    IF path \in DOMAIN dsk /\ dsk[path].kind = "dir"
    THEN Ok({p \in DOMAIN dsk :
                Len(p) = Len(path) + 1 /\ SubSeq(p, 1, Len(path)) = path})
    ELSE Err("NotFound")

\* Path::is_dir
is_dir(dsk, p) == p \in DOMAIN dsk /\ dsk[p].kind = "dir"

\* DirEntry::file_name
file_name(p) == p[Len(p)]

\* the ids of a set of directory entries after sort_unstable
RECURSIVE sorted_ids(_)
sorted_ids(entries) ==
    IF entries = {}
    THEN <<>>
    ELSE LET e == CHOOSE e \in entries :
                     \A o \in entries :
                         uuid_from_str(file_name(e)).val
                             <= uuid_from_str(file_name(o)).val
         IN <<uuid_from_str(file_name(e)).val>> \o sorted_ids(entries \ {e})

DiskStorage(base_path, folders) == [base_path |-> base_path, folders |-> folders]

\* DiskStorage::new
new(dsk, path) ==
    LET f == read_dir(dsk, path)
    IN IF f.tag = "Err"
       THEN f
       ELSE LET folders == {p \in f.val : is_dir(dsk, p)}
            IN IF \E p \in folders : to_str(file_name(p)).tag = "None"
               THEN Panic
               ELSE Ok(DiskStorage(path,
                        sorted_ids({p \in folders :
                                      uuid_from_str(file_name(p)).tag = "Ok"})))

get_recent_folder(self) == last(self.folders)

Folder(uuid, path) == [uuid |-> uuid, path |-> path]

get_full_path(self, folder_uid) ==
    Folder(folder_uid, push(self.base_path, uuid_to_string(folder_uid)))

\* fs::create_dir
create_dir(dsk, path) ==
    IF path \in DOMAIN dsk \/ ~is_dir(dsk, SubSeq(path, 1, Len(path) - 1))
    THEN Err("create_dir")
    ELSE Ok([p \in DOMAIN dsk \cup {path} |->
                IF p = path THEN DirEntry ELSE dsk[p]])

\* create_new_folder: the Folder and the file system after it; self.folders
\* is left as it is
create_new_folder(self, dsk, n) ==
    LET uid == now_v7(n)
        path == push(self.base_path, uuid_to_string(uid))
        res == create_dir(dsk, path)
    IN IF res.tag = "Ok"
       THEN Ok([folder |-> Folder(uid, path), disk |-> res.val])
       ELSE res

\* PathBuf::set_file_name: the last component is replaced
set_file_name(path, name) ==
    IF Len(path) = 0 THEN <<name>> ELSE [path EXCEPT ![Len(path)] = name]

\* fs::File::create followed by write_all
create_and_write(dsk, path, file_contents) ==
    IF \/ ~is_dir(dsk, SubSeq(path, 1, Len(path) - 1))
       \/ (path \in DOMAIN dsk /\ dsk[path].kind # "file")
    THEN Err("create")
    ELSE Ok([p \in DOMAIN dsk \cup {path} |->
                IF p = path THEN FileEntry(file_contents) ELSE dsk[p]])

\* the path add_new_file writes, from the folder it selected and the file id
new_file_path(folder, file_uid, ext) ==
    set_extension(set_file_name(folder.path, uuid_to_string(file_uid)), ext)

\* add_new_file on self with n ids generated so far: the result, the folder
\* selected, the file system and the number of ids afterwards
add_new_file(self, dsk, n, file_contents, ext) ==
    LET recent_folder == get_recent_folder(self)
        created == create_new_folder(self, dsk, n)
    IN IF recent_folder.tag = "None" /\ created.tag = "Err"
       THEN [result |-> created, folder |-> None, disk |-> dsk, clock |-> n + 1]
       ELSE LET folder == IF recent_folder.tag = "Some"
                          THEN get_full_path(self, recent_folder.val)
                          ELSE created.val.folder
                dsk1 == IF recent_folder.tag = "Some" THEN dsk ELSE created.val.disk
                n1 == IF recent_folder.tag = "Some" THEN n ELSE n + 1
                file_path == new_file_path(folder, now_v7(n1), ext)
                written == create_and_write(dsk1, file_path, file_contents)
            IN IF written.tag = "Err"
               THEN [result |-> written, folder |-> Some(folder), disk |-> dsk1,
                     clock |-> n1 + 1]
               ELSE [result |-> Ok(file_path), folder |-> Some(folder),
                     disk |-> written.val, clock |-> n1 + 1]

\* no DiskStorage was constructed
NoStorage ==
    /\ storage = None
    /\ listing = {}
    /\ clock = 0
    /\ added = <<>>

(***************************************************************************)
(* Storage Layer, flat: the DiskStorage and File that file_watcher.rs      *)
(* imports.  new makes sure the base directory exists; add_new_file writes *)
(* base/name.extension, replacing what is there, and returns a Result.     *)
(***************************************************************************)
File(name, ext) == [name |-> name, extension |-> ext]

\* DiskStorage::new(base): the base directory is created when it is missing
flat_new(dsk, base) ==
    IF is_dir(dsk, base)
    THEN [result |-> Ok(DiskStorage(base, <<>>)), disk |-> dsk]
    ELSE LET made == create_dir(dsk, base)
         IN IF made.tag = "Ok"
            THEN [result |-> Ok(DiskStorage(base, <<>>)), disk |-> made.val]
            ELSE [result |-> made, disk |-> dsk]

\* the path of a file under the flat strategy
flat_file_path(self, file) ==
    push(self.base_path, file.name \o <<".", file.extension>>)

\* add_new_file(file, bytes)
flat_add_new_file(self, dsk, file, bytes) ==
    LET written == create_and_write(dsk, flat_file_path(self, file), bytes)
    IN IF written.tag = "Ok"
       THEN [result |-> Ok(flat_file_path(self, file)), disk |-> written.val]
       ELSE [result |-> written, disk |-> dsk]

(***************************************************************************)
(* Ingestion Watcher (api/src/file_watcher.rs)                             *)
(***************************************************************************)
\* tokio::sync::mpsc::channel(1)
ChannelCapacity == 1

\* the base directory load_file stores into
WatchOut == <<<<"tmp">>, <<"watch-out">>>>

\* a vector no byte was read into
Empty == Image("empty", FALSE, 0, 0)

\* Vec::is_empty
is_empty(buf) == buf = Empty

\* Result<notify::Event, notify::Error> as the callback receives it, numbered
\* by arrival; kind is "CreateFile", "CreateFolder", "Modify", "Remove", or
\* "Error" for the Err case
Event(seq, kind, paths) == [seq |-> seq, kind |-> kind, paths |-> paths]

\* Path::extension of the last component
path_extension(comp) ==
    LET dots == {i \in Positions(comp, ".") : i > 1}
    IN IF dots = {} \/ Max(dots) = Len(comp)
       THEN None
       ELSE Some(comp[Len(comp)])

\* fs::remove_file
remove_file(dsk, path) ==
    IF path \in DOMAIN dsk /\ dsk[path].kind = "file"
    THEN Ok([p \in DOMAIN dsk \ {path} |-> dsk[p]])
    ELSE Err("remove_file")

\* every creation taken for a file creation
is_any_creation(event) == event.kind \in {"CreateFile", "CreateFolder"}

\* the arm of handle_fs_event that calls load_file
is_file_creation(event) == event.kind = "CreateFile"

\* a loop that would not wait for the handling to return
next_event_always(w) == w.pc # "dead"

\* the while-let of watch asks for the next notification only after the
\* handling of the previous one returned
next_event_ready(w) == w.pc = "recv"

\* load_file up to the read loop: the open and the two expects
load_open(dsk, path) ==
    LET content_result == open(dsk, path)
    IN IF content_result.tag = "Err"
       THEN Err("failed to read file")
       ELSE IF to_str(file_name(path)).tag = "None"
            THEN Panic
            ELSE IF path_extension(file_name(path)).tag = "None"
                 THEN Panic
                 ELSE Ok([filename |-> file_stem(file_name(path)),
                          extension |-> path_extension(file_name(path)).val])

\* a read loop that is left after the first read
read_once(buf) == FALSE

\* the condition of the read loop on what read_to_end left in buf
read_again(buf) == is_empty(buf)

\* a send that gives up on a full channel, as try_send does
try_send(ch, w) ==
    IF w.pc = "dead"
    THEN "closed"
    ELSE IF Len(ch) < ChannelCapacity THEN "sent" ELSE "dropped"

\* Sender::blocking_send: the value is queued when there is room, the call
\* waits while the channel is full and fails once the receiver is dropped
blocking_send(ch, w) ==
    IF w.pc = "dead"
    THEN "closed"
    ELSE IF Len(ch) < ChannelCapacity THEN "sent" ELSE "wait"

\* the DELETE_ORIGINAL_FILE test
delete_enabled(var) == var.tag = "Some" /\ var.val = "1"

\* load_file after the read loop, on the bytes read: what was given to the
\* Transcoder, what the Storage Layer answered, whether the source was
\* removed, the result and the file system afterwards
load_store(path, names, buf, cfg, dsk, var) ==
    LET new_format == transcode(buf, names.extension,
                                image_format(cfg.image.storage_format), None)
        opened == flat_new(dsk, WatchOut)
        new_path == flat_add_new_file(opened.result.val, opened.disk,
                                      File(names.filename, "avif"), new_format.val)
        removed == remove_file(new_path.disk, path)
        base == [path |-> path, given |-> Some(buf), stored |-> None,
                 new_path |-> None, removed |-> FALSE]
    IN IF new_format.tag = "Err"
       THEN [result |-> new_format, disk |-> dsk, ingest |-> base]
       ELSE IF opened.result.tag = "Err"
       THEN [result |-> opened.result, disk |-> opened.disk, ingest |-> base]
       ELSE LET tried == [base EXCEPT !.stored = Some(new_format.val),
                                      !.new_path = Some(new_path.result)]
            IN IF ~delete_enabled(var)
               THEN [result |-> Ok("stored"), disk |-> new_path.disk,
                     ingest |-> tried]
               ELSE IF removed.tag = "Err"
               THEN [result |-> removed, disk |-> new_path.disk, ingest |-> tried]
               ELSE [result |-> Ok("stored"), disk |-> removed.val,
                     ingest |-> [tried EXCEPT !.removed = TRUE]]

\* nothing arrived yet
NoHistory ==
    [arrived |-> <<>>, waited |-> <<>>, lost |-> <<>>, started |-> <<>>,
     finished |-> <<>>, ingests |-> <<>>]

\* no watcher runs
NoWatcher ==
    /\ delete_original = None
    /\ pending = <<>>
    /\ callback = None
    /\ chan = <<>>
    /\ watcher = [pc |-> "none", event |-> None, names |-> None, buf |-> Empty,
                  retried |-> FALSE]
    /\ hist = NoHistory

(***************************************************************************)
(* The configurations and file systems explored                            *)
(***************************************************************************)
T_large == TemplateSettings("Prefix", <<"l">>, <<2, 1>>, "PNG")

T_full == TemplateSettings("Suffix", <<"p">>, <<1, 2>>, "JPEG")

T_thumb == TemplateSettings("Suffix", <<"p">>, <<1, 1>>, "AVIF")

TemplateLists == {<<>>, <<T_large, T_full>>, <<T_thumb, T_large>>}

FormatLists == {{"AVIF", "JPEG", "PNG"}, {"PNG", "JPEG"}}

Configs ==
    {Settings(ImageSettings(f, sf, DefaultImageSettings.input_path,
                            DefaultImageSettings.output_path), ts) :
        f \in FormatLists, sf \in ImageEncoding, ts \in TemplateLists}

\* every discriminator (location, name) over the names "l" and "p"
TemplatePool ==
    {TemplateSettings(loc, n, <<1, 1>>, "PNG") :
        loc \in TemplateType, n \in {<<"l">>, <<"p">>}}

\* Settings::default() with every template list up to MaxTemplates
ResolverConfigs ==
    {Settings(DefaultImageSettings, ts) :
        ts \in UNION {[1..n -> TemplatePool] : n \in 0..MaxTemplates}}

\* the paths at which the explored file systems hold something
StoredPaths ==
    {canonical_path(DefaultImageSettings.input_path, ds[1], ds[2]) :
        ds \in {<<<<"p">>, <<"p">>>>,
                <<<<"l", "_", "p">>, <<"p">>>>,
                <<<<"l", "_", "p">>, <<"l", "_", "p">>>>}}

StoredEntries ==
    {FileEntry(Image("Avif", TRUE, 3, 3)), FileEntry(Image("Png", TRUE, 3, 3)),
     FileEntry(Garbage), DirEntry, DeniedEntry}

EmptyDisk == [path \in {} |-> DirEntry]

Disks ==
    {EmptyDisk} \cup {[path \in {sp} |-> e] : sp \in StoredPaths, e \in StoredEntries}

(***************************************************************************)
(* The server: one request at a time from idle to responded and back       *)
(***************************************************************************)
Request(shape, image, ext, width, height) ==
    [shape |-> shape, image |-> image, ext |-> ext, width |-> width,
     height |-> height]

NoRequest == Request("none", <<>>, "", 0, 0)

NoResponse == StatusOnly(0)

Init ==
    /\ config \in Configs
    /\ disk \in Disks
    /\ phase = "idle"
    /\ request = NoRequest
    /\ response = NoResponse
    /\ trace = NoTrace
    /\ NoStorage
    /\ NoWatcher
    /\ transcoded = None

InitResolver ==
    /\ config \in ResolverConfigs
    /\ disk = EmptyDisk
    /\ phase = "idle"
    /\ request = NoRequest
    /\ response = NoResponse
    /\ trace = NoTrace
    /\ NoStorage
    /\ NoWatcher
    /\ transcoded = None

\* the handler's answer becomes the state
Answer(req, served) ==
    /\ phase' = "responded"
    /\ request' = req
    /\ response' = served.response
    /\ trace' = served.trace
    /\ UNCHANGED <<config, disk, storeVars, watchVars, codecVars>>

\* GET /:image
RouteImage ==
    /\ phase = "idle"
    /\ \E image \in Names :
          Answer(Request("image", image, "", 0, 0),
                 default_serve_image(image, config, disk))

\* GET /:image/:extension
RouteImageExtension ==
    /\ phase = "idle"
    /\ \E image \in Names, ext \in Extensions :
          Answer(Request("image_extension", image, ext, 0, 0),
                 serve_image(image, ext, config, disk))

\* GET /:width/:height/:image/:extension
RouteResized ==
    /\ phase = "idle"
    /\ \E width \in Dims, height \in Dims, image \in Names, ext \in Extensions :
          Answer(Request("resized", image, ext, width, height),
                 serve_resized(width, height, image, ext, config, disk))

\* the response is sent (or the connection dropped) and the server waits again
Complete ==
    /\ phase = "responded"
    /\ phase' = "idle"
    /\ request' = NoRequest
    /\ response' = NoResponse
    /\ trace' = NoTrace
    /\ UNCHANGED <<config, disk, storeVars, watchVars, codecVars>>

Next == RouteImage \/ RouteImageExtension \/ RouteResized \/ Complete

Spec == Init /\ [][Next]_vars

NextResolver == RouteImage \/ Complete

SpecResolver == InitResolver /\ [][NextResolver]_vars

(***************************************************************************)
(* The bucketed storage on its own: one DiskStorage is constructed over a  *)
(* base directory and add_new_file is called on it repeatedly              *)
(***************************************************************************)
\* BASE_TMP_FOLDER of the storage tests
StorageBase == <<<<"tmp">>, <<"pixel_tester">>>>

\* what the base directory may hold before DiskStorage::new: buckets under
\* the plain and the braced text of an id, a directory and a file whose names
\* are no id, a file named like an id, a directory whose name is no Unicode
StorageChildren ==
    {<<uuid_to_string(1), DirEntry>>,
     <<uuid_to_string(2), DirEntry>>,
     <<<<"{">> \o uuid_to_string(3) \o <<"}">>, DirEntry>>,
     <<<<"n", "o", "t", "e", "s">>, DirEntry>>,
     <<uuid_to_string(4), FileEntry(Garbage)>>,
     <<<<"d", NonUtf8>>, DirEntry>>}

\* the ids that exist before the first call
InitialIds == 4

StorageDisk(children) ==
    [p \in {<<StorageBase[1]>>, StorageBase}
             \cup {push(StorageBase, c[1]) : c \in children} |->
        IF Len(p) <= Len(StorageBase)
        THEN DirEntry
        ELSE (CHOOSE c \in children : c[1] = file_name(p))[2]]

StorageDisks ==
    {[p \in {<<StorageBase[1]>>} |-> DirEntry]}
        \cup {StorageDisk(children) : children \in SUBSET StorageChildren}

StoredBytes == Image("Png", TRUE, 1, 1)

InitStorage ==
    /\ config = Settings(DefaultImageSettings, <<>>)
    /\ disk \in StorageDisks
    /\ phase = "idle"
    /\ request = NoRequest
    /\ response = NoResponse
    /\ trace = NoTrace
    /\ storage = None
    /\ listing = {}
    /\ clock = InitialIds
    /\ added = <<>>
    /\ NoWatcher
    /\ transcoded = None

\* let storage = DiskStorage::new(base)
StorageNew ==
    /\ storage = None
    /\ storage' = new(disk, StorageBase)
    /\ listing' = IF read_dir(disk, StorageBase).tag = "Ok"
                  THEN read_dir(disk, StorageBase).val
                  ELSE {}
    /\ UNCHANGED <<config, disk, phase, request, response, trace, clock, added,
                   watchVars, codecVars>>

\* storage.add_new_file(bytes, extension)
AddNewFile ==
    /\ storage.tag = "Ok"
    /\ clock + 2 <= MaxUuid
    /\ \E ext \in {"bin", "avif"} :
         LET r == add_new_file(storage.val, disk, clock, StoredBytes, ext)
         IN /\ disk' = r.disk
            /\ clock' = r.clock
            /\ added' = Append(added, [result |-> r.result, folder |-> r.folder])
    /\ UNCHANGED <<config, phase, request, response, trace, storage, listing,
                   watchVars, codecVars>>

NextStorage == StorageNew \/ AddNewFile

SpecStorage == InitStorage /\ [][NextStorage]_vars

(***************************************************************************)
(* The Transcoder on its own: transcode is called on every explored image, *)
(* extension hint, target format and operation list                        *)
(***************************************************************************)
\* byte vectors: a well-formed image of each format and size, bytes that
\* carry a format's magic number and do not decode, bytes without one
SourceImages ==
    {Image(f, TRUE, w, h) : f \in ImageFormat, w \in Dims, h \in Dims}
        \cup {Image(f, FALSE, 0, 0) : f \in ImageFormat}
        \cup {Garbage}

\* the operations a caller builds
OperationPool ==
    {Resize(PixelSize(w, h)) : w \in Dims, h \in Dims}
        \cup {Crop(Position(0, 0), PixelSize(1, 1)),
              Crop(Position(1, 0), PixelSize(1, MaxDim))}

\* ops: None, or a list of up to two operations
OperationLists ==
    {None, Some(<<>>)}
        \cup {Some(<<a>>) : a \in OperationPool}
        \cup {Some(<<a, b>>) : a \in OperationPool, b \in OperationPool}

InitTranscode ==
    /\ config = Settings(DefaultImageSettings, <<>>)
    /\ disk = EmptyDisk
    /\ phase = "idle"
    /\ request = NoRequest
    /\ response = NoResponse
    /\ trace = NoTrace
    /\ NoStorage
    /\ NoWatcher
    /\ transcoded = None

\* transcoder.transcode(image, extension, target, ops)
Transcode ==
    /\ transcoded = None
    /\ \E image \in SourceImages, ext \in Extensions, target \in ImageFormat,
          ops \in OperationLists :
         transcoded' = Some([image |-> image, extension |-> ext,
                             target |-> target, ops |-> ops,
                             result |-> transcode(image, ext, target, ops)])
    /\ UNCHANGED <<config, disk, phase, request, response, trace, storeVars,
                   watchVars>>

\* the caller takes the result
TranscodeReturn ==
    /\ transcoded # None
    /\ transcoded' = None
    /\ UNCHANGED <<config, disk, phase, request, response, trace, storeVars,
                   watchVars>>

NextTranscode == Transcode \/ TranscodeReturn

SpecTranscode == InitTranscode /\ [][NextTranscode]_vars

(***************************************************************************)
(* The Ingestion Watcher: the OS raises notifications about the watched    *)
(* directory, the callback sends them into the channel and the watch task  *)
(* handles them                                                            *)
(***************************************************************************)
\* the notifications one run raises
MaxEvents == 3

\* config.image.input_path, the directory watched
Watched == config.image.input_path

\* a direct child of the watched directory (the watch is not recursive)
IsWatched(path) ==
    Len(path) = Len(Watched) + 1 /\ SubSeq(path, 1, Len(Watched)) = Watched

\* the files that appear in the watched directory: a name with an extension
\* and a name without one
Arrivals == {<<"p", ".", "png">>, <<"l">>}

\* what a new file holds when the notification is raised: nothing yet, a PNG
\* image, bytes that are no image
ArrivalBytes == {Empty, Image("Png", TRUE, 1, 1), Garbage}

\* a directory created in the watched directory
Album == push(Watched, <<"d">>)

\* the canonical file an ingestion of p.png writes
Canonical(stem) == push(WatchOut, stem \o <<".", "avif">>)

\* the file system the watcher starts on: the watched directory and /tmp;
\* when blocked, a directory stands where the canonical file would be written
IngestDisk(input_path, blocked) ==
    [p \in {input_path, <<WatchOut[1]>>}
             \cup (IF blocked THEN {WatchOut, Canonical(<<"p">>)} ELSE {})
        |-> DirEntry]

\* the settings and environments the watcher is started with: the default
\* ones with and without DELETE_ORIGINAL_FILE and with the blocked canonical
\* path, the other storage formats, and an input_path that is the directory
\* the watcher stores into
IngestSetups ==
    {[storage_format |-> "AVIF", input_path |-> DefaultImageSettings.input_path,
      delete |-> d, blocked |-> b] :
        d \in {None, Some("0"), Some("1")}, b \in BOOLEAN}
    \cup {[storage_format |-> f, input_path |-> DefaultImageSettings.input_path,
           delete |-> None, blocked |-> FALSE] : f \in {"PNG", "JPEG"}}
    \cup {[storage_format |-> "AVIF", input_path |-> WatchOut,
           delete |-> Some("1"), blocked |-> FALSE]}

IdleWatcher ==
    [pc |-> "recv", event |-> None, names |-> None, buf |-> Empty,
     retried |-> FALSE]

InitIngest ==
    /\ \E setup \in IngestSetups :
          /\ config = Settings(ImageSettings(DefaultImageSettings.formats,
                                             setup.storage_format,
                                             setup.input_path,
                                             DefaultImageSettings.output_path),
                               <<>>)
          /\ disk = IngestDisk(setup.input_path, setup.blocked)
          /\ delete_original = setup.delete
    /\ phase = "idle"
    /\ request = NoRequest
    /\ response = NoResponse
    /\ trace = NoTrace
    /\ NoStorage
    /\ pending = <<>>
    /\ callback = None
    /\ chan = <<>>
    /\ watcher = IdleWatcher
    /\ hist = NoHistory
    /\ transcoded = None

serverVars ==
    <<config, phase, request, response, trace, storeVars, codecVars>>

\* the notification the OS raises next, while the watch is registered and
\* the run's notifications are not used up
CanRaise == Len(hist.arrived) < MaxEvents /\ watcher.pc # "dead"

NextEvent(kind, path) == Event(Len(hist.arrived) + 1, kind, <<path>>)

Raised(h, ev) == [h EXCEPT !.arrived = Append(@, ev)]

Note(kind, path) == [kind |-> kind, path |-> path]

\* the notifications the watcher's own changes of the watched directory
\* raise, as long as the run's notifications are not used up
RECURSIVE Announce(_, _, _)
Announce(pend, h, notes) ==
    IF notes = <<>> \/ Len(h.arrived) >= MaxEvents
    THEN [pending |-> pend, hist |-> h]
    ELSE LET ev == Event(Len(h.arrived) + 1, Head(notes).kind,
                         <<Head(notes).path>>)
         IN Announce(Append(pend, ev), Raised(h, ev), Tail(notes))

\* the canonical file the watcher has created and not yet written
WriteTarget ==
    IF watcher.pc = "write"
    THEN Some(flat_file_path(DiskStorage(WatchOut, <<>>),
                             File(watcher.names.val.filename, "avif")))
    ELSE None

\* a writer creates a file in the watched directory
OsCreateFile ==
    /\ CanRaise
    /\ \E name \in Arrivals, bytes \in ArrivalBytes :
         LET path == push(Watched, name)
         IN /\ path \notin DOMAIN disk
            /\ disk' = [p \in DOMAIN disk \cup {path} |->
                          IF p = path THEN FileEntry(bytes) ELSE disk[p]]
            /\ pending' = Append(pending, NextEvent("CreateFile", path))
            /\ hist' = Raised(hist, NextEvent("CreateFile", path))
    /\ UNCHANGED <<serverVars, delete_original, callback, chan, watcher>>

\* a directory is created in the watched directory
OsCreateFolder ==
    /\ CanRaise
    /\ Album \notin DOMAIN disk
    /\ disk' = [p \in DOMAIN disk \cup {Album} |->
                  IF p = Album THEN DirEntry ELSE disk[p]]
    /\ pending' = Append(pending, NextEvent("CreateFolder", Album))
    /\ hist' = Raised(hist, NextEvent("CreateFolder", Album))
    /\ UNCHANGED <<serverVars, delete_original, callback, chan, watcher>>

\* the writer of a file created empty fills it
OsModify ==
    /\ CanRaise
    /\ \E path \in DOMAIN disk :
         /\ IsWatched(path)
         /\ WriteTarget # Some(path)
         /\ disk[path] = FileEntry(Empty)
         /\ disk' = [disk EXCEPT ![path] = FileEntry(Image("Png", TRUE, 1, 1))]
         /\ pending' = Append(pending, NextEvent("Modify", path))
         /\ hist' = Raised(hist, NextEvent("Modify", path))
    /\ UNCHANGED <<serverVars, delete_original, callback, chan, watcher>>

\* a file of the watched directory that the watcher has not open is removed
OsRemove ==
    /\ CanRaise
    /\ \E path \in DOMAIN disk :
         /\ IsWatched(path)
         /\ WriteTarget # Some(path)
         /\ disk[path].kind = "file"
         /\ watcher.event.tag = "Some" => first(watcher.event.val.paths) # Some(path)
         /\ disk' = [p \in DOMAIN disk \ {path} |-> disk[p]]
         /\ pending' = Append(pending, NextEvent("Remove", path))
         /\ hist' = Raised(hist, NextEvent("Remove", path))
    /\ UNCHANGED <<serverVars, delete_original, callback, chan, watcher>>

\* the notify backend reports an error
OsError ==
    /\ CanRaise
    /\ pending' = Append(pending, Event(Len(hist.arrived) + 1, "Error", <<>>))
    /\ hist' = Raised(hist, Event(Len(hist.arrived) + 1, "Error", <<>>))
    /\ UNCHANGED <<serverVars, disk, delete_original, callback, chan, watcher>>

\* what a send that returned did with the notification
Delivered(outcome, ev) ==
    /\ chan' = IF outcome = "sent" THEN Append(chan, ev) ELSE chan
    /\ hist' = IF outcome = "sent"
               THEN hist
               ELSE [hist EXCEPT !.lost = Append(@, ev.seq)]

\* the callback is called with the next notification and sends it
CallbackInvoke ==
    /\ pending # <<>>
    /\ callback = None
    /\ pending' = Tail(pending)
    /\ IF blocking_send(chan, watcher) = "wait"
       THEN /\ callback' = Some(Head(pending))
            /\ chan' = chan
            /\ hist' = [hist EXCEPT !.waited = Append(@, Head(pending).seq)]
       ELSE /\ callback' = None
            /\ Delivered(blocking_send(chan, watcher), Head(pending))
    /\ UNCHANGED <<serverVars, disk, delete_original, watcher>>

\* a callback waiting in blocking_send returns
CallbackResume ==
    /\ callback # None
    /\ blocking_send(chan, watcher) # "wait"
    /\ callback' = None
    /\ Delivered(blocking_send(chan, watcher), callback.val)
    /\ UNCHANGED <<serverVars, disk, delete_original, pending, watcher>>

Started(h, ev) == [h EXCEPT !.started = Append(@, ev.seq)]

Finished(h, ev) == [h EXCEPT !.finished = Append(@, ev.seq)]

\* recv().await returns a notification and handle_fs_event runs up to the
\* read loop of load_file
WatchRecv ==
    /\ next_event_ready(watcher)
    /\ chan # <<>>
    /\ chan' = Tail(chan)
    /\ LET ev == Head(chan)
           p == first(ev.paths)
       IN IF ~is_file_creation(ev) \/ p.tag = "None"
          THEN /\ hist' = Finished(Started(hist, ev), ev)
               /\ watcher' = watcher
          ELSE LET o == load_open(disk, p.val)
               IN IF o.tag = "Err"
                  THEN /\ hist' = Finished(Started(hist, ev), ev)
                       /\ watcher' = watcher
                  ELSE IF o.tag = "Panic"
                  THEN /\ hist' = Started(hist, ev)
                       /\ watcher' = [IdleWatcher EXCEPT !.pc = "dead",
                                                         !.event = Some(ev)]
                  ELSE /\ hist' = Started(hist, ev)
                       /\ watcher' = [pc |-> "read", event |-> Some(ev),
                                      names |-> Some(o.val), buf |-> Empty,
                                      retried |-> FALSE]
    /\ UNCHANGED <<serverVars, disk, delete_original, pending, callback>>

\* one turn of the read loop
WatchRead ==
    /\ watcher.pc = "read"
    /\ LET ev == watcher.event.val
           r == read_to_end(disk, first(ev.paths).val)
       IN IF r.tag = "Err"
          THEN /\ hist' = Finished(hist, ev)
               /\ watcher' = IdleWatcher
          ELSE IF read_again(r.val)
          THEN /\ hist' = hist
               /\ watcher' = [watcher EXCEPT !.buf = r.val, !.retried = TRUE]
          ELSE /\ hist' = hist
               /\ watcher' = [watcher EXCEPT !.pc = "store", !.buf = r.val]
    /\ UNCHANGED <<serverVars, disk, delete_original, pending, callback, chan>>

\* the ingestion as the history keeps it
Ingested(ev, r) ==
    [event |-> ev.seq, retried |-> watcher.retried, result |-> r.result.tag]
        @@ r.ingest

\* load_file after the read loop, up to the creation of the canonical file:
\* transcode, DiskStorage::new and the create of add_new_file, which leaves
\* the file empty; when one of them fails, the rest of load_file follows
WatchStore ==
    /\ watcher.pc = "store"
    /\ LET ev == watcher.event.val
           source == first(ev.paths).val
           r == load_store(source, watcher.names.val, watcher.buf,
                           config, disk, delete_original)
       IN IF r.ingest.new_path.tag = "Some" /\ r.ingest.new_path.val.tag = "Ok"
          THEN LET target == r.ingest.new_path.val.val
                   told == Announce(pending, hist,
                              IF IsWatched(target)
                              THEN <<Note(IF target \in DOMAIN disk
                                          THEN "Modify" ELSE "CreateFile",
                                          target)>>
                              ELSE <<>>)
               IN /\ disk' = create_and_write(flat_new(disk, WatchOut).disk,
                                              target, Empty).val
                  /\ watcher' = [watcher EXCEPT !.pc = "write"]
                  /\ pending' = told.pending
                  /\ hist' = told.hist
          ELSE LET told == Announce(pending,
                              [Finished(hist, ev) EXCEPT
                                  !.ingests = Append(@, Ingested(ev, r))],
                              IF r.ingest.removed
                              THEN <<Note("Remove", source)>> ELSE <<>>)
               IN /\ disk' = r.disk
                  /\ watcher' = IdleWatcher
                  /\ pending' = told.pending
                  /\ hist' = told.hist
    /\ UNCHANGED <<serverVars, delete_original, callback, chan>>

\* the write_all of add_new_file and the rest of load_file: the source is
\* removed when DELETE_ORIGINAL_FILE says so
WatchWrite ==
    /\ watcher.pc = "write"
    /\ LET ev == watcher.event.val
           source == first(ev.paths).val
           r == load_store(source, watcher.names.val, watcher.buf,
                           config, disk, delete_original)
           told == Announce(pending,
                      [Finished(hist, ev) EXCEPT
                          !.ingests = Append(@, Ingested(ev, r))],
                      (IF IsWatched(WriteTarget.val)
                       THEN <<Note("Modify", WriteTarget.val)>> ELSE <<>>)
                         \o (IF r.ingest.removed
                             THEN <<Note("Remove", source)>> ELSE <<>>))
       IN /\ disk' = r.disk
          /\ watcher' = IdleWatcher
          /\ pending' = told.pending
          /\ hist' = told.hist
    /\ UNCHANGED <<serverVars, delete_original, callback, chan>>

\* the stems of the files the Storage Layer reported as written
IngestedStems ==
    {file_stem(file_name(hist.ingests[i].path)) :
        i \in {j \in DOMAIN hist.ingests :
                 /\ hist.ingests[j].new_path.tag = "Some"
                 /\ hist.ingests[j].new_path.val.tag = "Ok"}}

\* the string that names a path: its components behind separators
RECURSIVE absolute(_)
absolute(path) ==
    IF path = <<>> THEN <<>> ELSE <<"/">> \o Head(path) \o absolute(Tail(path))

\* GET /:image whose name, percent-decoded by the Path extractor, is the
\* absolute path of a file in the directory the watcher stores into, without
\* its extension
RouteStored ==
    /\ phase = "idle"
    /\ \E path \in DOMAIN disk :
          /\ Len(path) = Len(WatchOut) + 1
          /\ SubSeq(path, 1, Len(WatchOut)) = WatchOut
          /\ disk[path].kind = "file"
          /\ LET image == absolute(WatchOut) \o <<"/">> \o file_stem(file_name(path))
             IN /\ phase' = "responded"
                /\ request' = Request("image", image, "", 0, 0)
                /\ response' = default_serve_image(image, config, disk).response
                /\ trace' = default_serve_image(image, config, disk).trace
    /\ UNCHANGED <<config, disk, storeVars, watchVars, codecVars>>

\* GET /:image for an image the watcher has ingested
RouteIngested ==
    /\ phase = "idle"
    /\ \E image \in IngestedStems :
          /\ phase' = "responded"
          /\ request' = Request("image", image, "", 0, 0)
          /\ response' = default_serve_image(image, config, disk).response
          /\ trace' = default_serve_image(image, config, disk).trace
    /\ UNCHANGED <<config, disk, storeVars, watchVars, codecVars>>

NextIngest ==
    \/ OsCreateFile \/ OsCreateFolder \/ OsModify \/ OsRemove \/ OsError
    \/ CallbackInvoke \/ CallbackResume
    \/ WatchRecv \/ WatchRead \/ WatchStore \/ WatchWrite
    \/ RouteIngested \/ RouteStored \/ Complete

SpecIngest == InitIngest /\ [][NextIngest]_vars

\* the watch task and the notify thread keep running: a step of theirs that
\* stays possible is taken; nothing obliges the OS or a client to act
SpecIngestFair ==
    /\ SpecIngest
    /\ WF_vars(CallbackInvoke) /\ WF_vars(CallbackResume)
    /\ WF_vars(WatchRecv) /\ WF_vars(WatchRead)
    /\ WF_vars(WatchStore) /\ WF_vars(WatchWrite)

(***************************************************************************)
(* Vocabulary of the properties                                            *)
(***************************************************************************)
Responded == phase = "responded"

\* process ran and called the Template Resolver
Resolved == Responded /\ trace.template.tag = "Some"

TemplateMatched == Resolved /\ trace.template.val.tag = "Ok"

TemplateUnmatched == Resolved /\ trace.template.val.tag = "Err"

MatchedTemplate == config.templates[trace.template.val.val]

\* the encoding a request asks for: its extension, the canonical storage
\* format when the request shape carries none
RequestedEncoding ==
    IF request.shape = "image"
    THEN Some(config.image.storage_format)
    ELSE IF request.ext \in {"jpg", "jpeg"} THEN Some("JPEG")
    ELSE IF request.ext = "png" THEN Some("PNG")
    ELSE IF request.ext = "avif" THEN Some("AVIF")
    ELSE None

\* the MIME type of the format a byte vector is encoded in
MimeOf(image) ==
    CASE image.magic = "Avif" -> "image/avif"
      [] image.magic = "Jpeg" -> "image/jpeg"
      [] image.magic = "Png" -> "image/png"
      [] OTHER -> "application/octet-stream"

\* the name up to its first "_" and from its last "_" on
FirstToken(name) ==
    CHOOSE t \in {SubSeq(name, 1, k) : k \in 0..Len(name)} :
        /\ Positions(t, "_") = {}
        /\ (Len(t) = Len(name) \/ name[Len(t) + 1] = "_")

LastToken(name) ==
    CHOOSE t \in {SubSeq(name, k + 1, Len(name)) : k \in 0..Len(name)} :
        /\ Positions(t, "_") = {}
        /\ (Len(t) = Len(name) \/ name[Len(name) - Len(t)] = "_")

\* template t is selected by the name's first or last token
Matches(t, name) ==
    \/ t.location = "Prefix" /\ t.name = FirstToken(name)
    \/ t.location = "Suffix" /\ t.name = LastToken(name)

MatchingIndexes(templates, name) ==
    {i \in 1..Len(templates) : Matches(templates[i], name)}

(***************************************************************************)
(* C1: a request whose canonical file does not exist is answered 404,      *)
(* not the 500 of a transcode or I/O failure.                              *)
(***************************************************************************)
C1_AbsentFileIs404 ==
    (Responded /\ trace.open = "NotFound") => response.status = 404

(***************************************************************************)
(* C2: in every request shape, an extension that parses to an encoding     *)
(* outside the allowed formats is answered 400, and no file is opened and  *)
(* no transcode is run for it.                                             *)
(***************************************************************************)
C2_DisallowedFormatIs400 ==
    (/\ Responded
     /\ RequestedEncoding.tag = "Some"
     /\ RequestedEncoding.val \notin config.image.formats)
    => (/\ response.status = 400
        /\ trace.path.tag = "None"
        /\ trace.calls = <<>>)

(***************************************************************************)
(* C3: with no template match, a request carrying width w and height h is  *)
(* transcoded with the operation list [Resize(w,h)] and a successful       *)
(* response image is exactly w x h; a request carrying none is not         *)
(* resized.  Stated for the requests whose format is allowed.              *)
(***************************************************************************)
C3_ExplicitResizeApplied ==
    (/\ TemplateUnmatched
     /\ response.status = 200
     /\ RequestedEncoding.val \in config.image.formats)
    => IF request.shape = "resized"
       THEN /\ Len(trace.calls) = 1
            /\ trace.calls[1].ops =
                   Some(<<Resize(PixelSize(request.width, request.height))>>)
            /\ response.body.val.w = request.width
            /\ response.body.val.h = request.height
       ELSE \A i \in 1..Len(trace.calls) :
                trace.calls[i].ops \in {None, Some(<<>>)}

(***************************************************************************)
(* C4: on every 200 response the Content-Type header is the MIME type of   *)
(* the encoding the body was encoded to, the template's format when a      *)
(* template matched.  Stated for the bodies the Transcoder produced.       *)
(***************************************************************************)
C4_ContentTypeIsBodyEncoding ==
    (Responded /\ response.status = 200 /\ trace.calls # <<>>)
    => response.content_type = MimeOf(response.body.val)

(***************************************************************************)
(* C5: when a template matches, the transcode target format and the        *)
(* resize size are the template's, whatever extension and width/height     *)
(* the caller asked for.                                                   *)
(***************************************************************************)
C5_TemplateOverridesRequest ==
    (TemplateMatched /\ trace.read = "Ok")
    => /\ Len(trace.calls) = 1
       /\ trace.calls[1].target = image_format(MatchedTemplate.format)
       /\ trace.calls[1].ops =
              Some(<<Resize(PixelSize(MatchedTemplate.size[1],
                                      MatchedTemplate.size[2]))>>)
       /\ response.status = 200 =>
              /\ response.body.val.magic = image_format(MatchedTemplate.format)
              /\ response.body.val.w = MatchedTemplate.size[1]
              /\ response.body.val.h = MatchedTemplate.size[2]

\* a resized request for another format and size than the matched
\* template's, answered 200
C5_Witness ==
    /\ TemplateMatched
    /\ request.shape = "resized"
    /\ response.status = 200
    /\ RequestedEncoding.val \in config.image.formats
    /\ RequestedEncoding.val # MatchedTemplate.format
    /\ <<request.width, request.height>> # MatchedTemplate.size

(***************************************************************************)
(* C6: GET /{name} is processed exactly as GET /{name}/{extension} with    *)
(* the extension of the configured canonical storage format.               *)
(***************************************************************************)
C6_DefaultIsStorageFormat ==
    (Responded /\ request.shape = "image")
    => \A ext \in {"avif", "jpg", "jpeg", "png"} :
          parse_extension(ext) = Some(config.image.storage_format)
          => /\ response = serve_image(request.image, ext, config, disk).response
             /\ trace = serve_image(request.image, ext, config, disk).trace

(***************************************************************************)
(* C7: the canonical bytes are returned unmodified exactly when the        *)
(* resolved target format is the canonical storage format and no resize    *)
(* was requested; in every other case the Transcoder is invoked.           *)
(***************************************************************************)
C7_PassThroughIffCanonical ==
    (Resolved /\ trace.read = "Ok" /\ RequestedEncoding.tag = "Some")
    => LET target == IF TemplateMatched THEN MatchedTemplate.format
                     ELSE RequestedEncoding.val
           resized == TemplateMatched \/ request.shape = "resized"
       IN (trace.calls = <<>> /\ response.body = trace.bytes)
          <=> (target = config.image.storage_format /\ ~resized)

(***************************************************************************)
(* C8: a requested name without "_" resolves to NoTemplateMatch, also      *)
(* when the whole name is the name of a configured template.               *)
(***************************************************************************)
C8_NoUnderscoreNoMatch ==
    (Resolved /\ Positions(request.image, "_") = {})
    => trace.template.val.tag = "Err"

(***************************************************************************)
(* C9: the resolver returns the template of smallest index whose           *)
(* (location, name) is (Prefix, first token) or (Suffix, last token) of    *)
(* the requested name, and NoTemplateMatch when there is none.             *)
(***************************************************************************)
C9_FirstMatchWins ==
    Resolved
    => LET M == MatchingIndexes(config.templates, request.image)
       IN IF M = {}
          THEN trace.template.val.tag = "Err"
          ELSE trace.template.val = Ok(Min(M))

\* two templates match the name and the earlier one is returned
C9_Witness ==
    /\ Resolved
    /\ Cardinality(MatchingIndexes(config.templates, request.image)) = 2
    /\ trace.template.val = Ok(1)
    /\ config.templates[1] # config.templates[2]
    /\ trace.stem.tag = "Ok"

(***************************************************************************)
(* C10: on a template match the stem is the requested name with the        *)
(* matched pattern removed once: the leading name_ of a Prefix template,   *)
(* the trailing _name of a Suffix template.                                *)
(***************************************************************************)
C10_StemIsNameWithoutPattern ==
    TemplateMatched
    => /\ trace.stem.tag = "Ok"
       /\ MatchedTemplate.location = "Prefix" =>
              request.image = MatchedTemplate.name \o <<"_">> \o trace.stem.val
       /\ MatchedTemplate.location = "Suffix" =>
              request.image = trace.stem.val \o <<"_">> \o MatchedTemplate.name


(***************************************************************************)
(* Vocabulary of the storage properties                                    *)
(***************************************************************************)
\* the calls of add_new_file that returned a path
Stored == {i \in DOMAIN added : added[i].result.tag = "Ok"}

\* the directories directly under the base directory
BucketsOnDisk ==
    {p \in DOMAIN disk :
        /\ Len(p) = Len(StorageBase) + 1
        /\ SubSeq(p, 1, Len(StorageBase)) = StorageBase
        /\ disk[p].kind = "dir"}

\* the listed subdirectories whose names are the text of an id
ParsedBuckets ==
    {p \in listing : disk[p].kind = "dir" /\ uuid_from_str(file_name(p)).tag = "Ok"}

Ascending(ids) == \A i, j \in DOMAIN ids : i < j => ids[i] <= ids[j]

\* C11: every path add_new_file returns is base/<bucket-id>/<file-id>.<ext>:
\* its parent directory is the bucket the call selected, whether that bucket
\* existed before the call or was created by it.
C11_FileInsideBucket ==
    \A i \in Stored :
        LET path == added[i].result.val
            bucket == added[i].folder.val
        IN /\ Len(path) = Len(StorageBase) + 2
           /\ SubSeq(path, 1, Len(path) - 1) = bucket.path
           /\ bucket.path = push(StorageBase, uuid_to_string(bucket.uuid))

\* C12: on a DiskStorage constructed over an empty base directory, after one
\* or more calls of add_new_file that all succeeded exactly one bucket
\* directory exists under the base.
C12_OneBucketFromEmpty ==
    (/\ storage.tag = "Ok"
     /\ listing = {}
     /\ added # <<>>
     /\ Stored = DOMAIN added)
        => Cardinality(BucketsOnDisk) = 1

\* C13: DiskStorage::new over an existing base directory returns a storage
\* whose folders are exactly the ids of the subdirectories whose names parse,
\* in ascending order, its last element the largest; every other entry is
\* discarded.
C13_FoldersAreParsedSorted ==
    (/\ storage.tag # "None"
     /\ added = <<>>
     /\ is_dir(disk, StorageBase))
        => /\ storage.tag = "Ok"
           /\ {storage.val.folders[i] : i \in DOMAIN storage.val.folders}
                = {uuid_from_str(file_name(p)).val : p \in ParsedBuckets}
           /\ Len(storage.val.folders) = Cardinality(ParsedBuckets)
           /\ Ascending(storage.val.folders)
           /\ (ParsedBuckets # {}
                 => get_recent_folder(storage.val)
                      = Some(Max({uuid_from_str(file_name(p)).val :
                                    p \in ParsedBuckets})))


(***************************************************************************)
(* Vocabulary of the watcher properties                                    *)
(***************************************************************************)
Range(q) == {q[i] : i \in DOMAIN q}

\* the ingestions that reached the Transcoder
Ingests == Range(hist.ingests)

\* the Storage Layer reported the canonical file as written
Written(g) == g.new_path.tag = "Some" /\ g.new_path.val.tag = "Ok"

\* the notifications that left the OS queue, in the order of their arrival:
\* those the watch loop took, the one in the channel, the one a waiting
\* callback holds
Seqs(events) == [i \in DOMAIN events |-> events[i].seq]

InFlight ==
    hist.started \o Seqs(chan)
        \o (IF callback.tag = "Some" THEN <<callback.val.seq>> ELSE <<>>)
        \o Seqs(pending)

\* C14: no failure while one notification is handled (a file that cannot be
\* read, a created file without extension, bytes that do not decode, a failed
\* write) ends the watch loop: the watch task is alive in every state.
C14_WatchLoopSurvives == watcher.pc # "dead"

C16_RemovedOnlyAfterIngest ==
    \A g \in Ingests :
        g.removed => /\ delete_enabled(delete_original)
                     /\ g.stored.tag = "Some"
                     /\ Written(g)

\* C17: a notification that is not a file creation (a modification, a
\* removal, a directory creation, a backend error) changes nothing when the
\* watch loop takes it: the file system, the watch task and the ingestions
\* stay as they are and the notification is finished at once.
C17_OtherEventsIgnored ==
    [][(/\ chan # <<>>
        /\ Head(chan).kind # "CreateFile"
        /\ hist'.started = Append(hist.started, Head(chan).seq))
          => /\ disk' = disk
             /\ watcher' = watcher
             /\ hist'.ingests = hist.ingests
             /\ hist'.finished = Append(hist.finished, Head(chan).seq)]_vars

\* the watch loop has taken a directory creation and a modification
C17_Witness ==
    /\ \E s \in Range(hist.finished) : hist.arrived[s].kind = "CreateFolder"
    /\ \E s \in Range(hist.finished) : hist.arrived[s].kind = "Modify"

\* C18: the watch loop takes the notifications in the order of their arrival
\* and one at a time: the k-th notification taken is the k-th that arrived,
\* they finish in that order, and at most one is taken and not finished.
C18_InOrderOneAtATime ==
    /\ \A k \in DOMAIN hist.started : hist.started[k] = k
    /\ Len(hist.finished) <= Len(hist.started)
    /\ Len(hist.started) - Len(hist.finished) <= 1
    /\ \A k \in DOMAIN hist.finished : hist.finished[k] = hist.started[k]
    /\ Len(hist.started) > Len(hist.finished) <=> watcher.pc \in {"read", "store", "write", "dead"}

\* a second notification waits in the channel while a file is being read
C18_Witness ==
    /\ watcher.pc = "read"
    /\ chan # <<>>
    /\ Len(hist.finished) >= 1

C20_RequestOpensIngestedFile ==
    (/\ phase = "responded"
     /\ TemplateUnmatched)
        => \E g \in Ingests :
              /\ Written(g)
              /\ trace.path = Some(g.new_path.val.val)
              /\ trace.open # "NotFound"


(***************************************************************************)
(* Vocabulary of the transcoder properties                                 *)
(***************************************************************************)
Called == transcoded.tag = "Some"

\* the image crate finds a magic number in the bytes
Detected(image) == image.magic \in ImageFormat

\* the hint is one of the extensions the Transcoder knows
HintKnown(ext) == ext \in {"png", "jpg", "jpeg", "avif"}

\* the format the hint names
HintedFormat(ext) ==
    CASE ext = "png" -> "Png"
      [] ext \in {"jpg", "jpeg"} -> "Jpeg"
      [] ext = "avif" -> "Avif"

\* the bytes decode as the given format
Decodes(image, format) == image.valid /\ image.magic = format

\* C21: transcode takes the format detected in the content whatever the hint
\* says; only when nothing is detected does it take the format the hint
\* names; when the hint names none either it fails as unsupported without
\* decoding; and a call that fails returns an error and no bytes.
C21_DetectionBeforeHint ==
    Called =>
      LET c == transcoded.val
      IN /\ Detected(c.image)
              => (c.result.tag = "Ok" <=> Decodes(c.image, c.image.magic))
         /\ (~Detected(c.image) /\ HintKnown(c.extension))
              => (c.result.tag = "Ok"
                    <=> Decodes(c.image, HintedFormat(c.extension)))
         /\ (~Detected(c.image) /\ ~HintKnown(c.extension))
              => c.result = Err("UnsupportedFormat")
         /\ c.result.tag \in {"Ok", "Err"}
         /\ c.result.tag = "Err" => DOMAIN c.result = {"tag", "err"}

\* a PNG image was transcoded although its extension hint says jpg, and
\* bytes without magic number and with an unknown hint were refused
C21_Witness ==
    /\ Called
    /\ Detected(transcoded.val.image)
    /\ HintKnown(transcoded.val.extension)
    /\ HintedFormat(transcoded.val.extension) # transcoded.val.image.magic
    /\ transcoded.val.result.tag = "Ok"


\* a well-formed image of a format the image crate detects
ValidSource(image) == image.valid /\ Detected(image)

\* the size one operation leaves: a resize gives exactly the size asked for,
\* a crop what the rectangle covers of the image
SizeAfter(size, op) ==
    IF op.op = "Resize"
    THEN [w |-> op.size.width, h |-> op.size.height]
    ELSE [w |-> Min({op.size.width, size.w - Min({op.pos.x, size.w})}),
          h |-> Min({op.size.height, size.h - Min({op.pos.y, size.h})})]

\* the operations of a call, none when the list is absent
OpsOf(c) == IF c.ops.tag = "Some" THEN c.ops.val ELSE <<>>

\* C22: for a valid source image of size (W,H) and every target format the
\* output is an image of the target format whose size is the one the
\* operations give, applied left to right: (W,H) for an empty or absent list
\* and exactly (w2,h2) after Resize(w2,h2), whatever the source's proportions.
C22_OutputDimensions ==
    (Called /\ ValidSource(transcoded.val.image)) =>
      LET c == transcoded.val
          ops == OpsOf(c)
          source == [w |-> c.image.w, h |-> c.image.h]
          out == [w |-> c.result.val.w, h |-> c.result.val.h]
      IN /\ c.result.tag = "Ok"
         /\ c.result.val.valid
         /\ c.result.val.magic = c.target
         /\ ops = <<>> => out = source
         /\ Len(ops) = 1 => out = SizeAfter(source, ops[1])
         /\ Len(ops) = 2 => out = SizeAfter(SizeAfter(source, ops[1]), ops[2])
         /\ (ops # <<>> /\ ops[Len(ops)].op = "Resize")
              => out = [w |-> ops[Len(ops)].size.width,
                        h |-> ops[Len(ops)].size.height]

\* an image that is not square was resized to a square
C22_Witness ==
    /\ Called
    /\ ValidSource(transcoded.val.image)
    /\ transcoded.val.image.w # transcoded.val.image.h
    /\ OpsOf(transcoded.val) # <<>>
    /\ OpsOf(transcoded.val)[Len(OpsOf(transcoded.val))].op = "Resize"
    /\ LET s == OpsOf(transcoded.val)[Len(OpsOf(transcoded.val))].size
       IN s.width = s.height
    /\ transcoded.val.result.tag = "Ok"


(***************************************************************************)
(* Vocabulary of the parsing properties                                    *)
(***************************************************************************)
\* str::to_lowercase on the extension strings explored
Lowercase(ext) == IF ext = "PNG" THEN "png" ELSE ext

\* the encoding a lower-case name stands for, jpg and jpeg both JPEG
EncodingNamed(lower) ==
    CASE lower = "avif" -> Some("AVIF")
      [] lower \in {"jpg", "jpeg"} -> Some("JPEG")
      [] lower = "png" -> Some("PNG")
      [] OTHER -> None

\* C23: the extension of a request parses to an encoding exactly when its
\* lower-cased form is one of avif, jpg, jpeg, png, and then to the encoding
\* that form names: the letter case of the extension makes no difference.
C23_ParsingIgnoresCase ==
    (Responded /\ request.shape # "image")
        => parse_extension(request.ext) = EncodingNamed(Lowercase(request.ext))


\* the canonical files the Storage Layer reported as written
CanonicalFiles == {g.new_path.val.val : g \in {h \in Ingests : Written(h)}}

\* C24: no operation deletes a canonical stored file: the only file the
\* watcher removes is the source of an ingestion, and for every configuration
\* of input and output paths that source is none of the canonical files the
\* watcher has written.
C24_CanonicalNeverDeleted ==
    \A g \in Ingests : g.removed => g.path \notin CanonicalFiles


\* the stem of the request: the requested name with the matched pattern
\* removed, the requested name itself without a template match
RequestStem ==
    IF TemplateMatched /\ trace.stem.tag = "Ok"
    THEN trace.stem.val
    ELSE request.image

\* C25: the path the Request Processor opens is <storage location>/<stem>.avif,
\* a direct child of the storage location, whatever the requested name is.
C25_OpensDirectChild ==
    (Responded /\ trace.path.tag = "Some")
    => trace.path.val
         = set_extension(push(config.image.input_path, RequestStem), "avif")


\* the canonical extension of a storage format, as the components of a name
CanonicalExtension(f) ==
    CASE extension(f) = ".avif" -> <<".", "avif">>
      [] extension(f) = ".jpg" -> <<".", "jpg">>
      [] extension(f) = ".png" -> <<".", "png">>

\* C26: for every storage format F the file the watcher stores holds bytes
\* encoded in F and is named <stem>.<canonical extension of F>.
C26_StoredUnderFormatName ==
    \A g \in Ingests :
        Written(g) =>
            /\ g.stored.val.magic = image_format(config.image.storage_format)
            /\ file_name(g.new_path.val.val)
                 = file_stem(file_name(g.path))
                     \o CanonicalExtension(config.image.storage_format)


\* C27: the handling of every notification finishes: a watcher that reads a
\* created file leaves the read loop, also when the file stays zero-length
\* for ever.
C27_ReadLoopEnds == (watcher.pc = "read") ~> (watcher.pc # "read")


\* C28: whenever check_templates returns a matched template,
\* remove_template_pattern returns a stem: its unwrap never panics and the
\* request is answered.
C28_MatchNeverPanics ==
    TemplateMatched =>
        /\ remove_template_pattern(request.image, MatchedTemplate) # Panic
        /\ trace.stem # Panic
        /\ response.status # 0


\* the bytes of the writes of a canonical file that have finished
FinishedWrites(path) ==
    {g.stored.val : g \in {h \in Ingests : Written(h) /\ h.new_path.val.val = path}}

\* the request opened a file of the directory the watcher stores into
OpenedStored ==
    /\ Responded
    /\ trace.path.tag = "Some"
    /\ trace.bytes.tag = "Some"
    /\ Len(trace.path.val) = Len(WatchOut) + 1
    /\ SubSeq(trace.path.val, 1, Len(WatchOut)) = WatchOut
    /\ file_name(trace.path.val) \in {file_name(Canonical(n)) : n \in {<<"p">>, <<"l">>}}

\* C29: under every interleaving of a request with an ingestion that writes
\* the canonical file the request opens, a 200 response is made from the
\* complete bytes of a write that has finished, never from the empty content
\* of a file created and not yet written.
C29_ServesFinishedWrite ==
    (OpenedStored /\ response.status = 200)
    => /\ ~is_empty(trace.bytes.val)
       /\ trace.bytes.val \in FinishedWrites(trace.path.val)

====
